---------------------------- MODULE Spec2Model ----------------------------
(***************************************************************************)
(* The tool-call fulfilment loop of django_ai_assistant:                   *)
(* EventHandler (src/django_ai_assistant/ai/function_calling.py).          *)
(*                                                                         *)
(* A handler consumes the event stream of a remote run.  On a              *)
(* "thread.run.requires_action" event it walks the batch of pending tool   *)
(* calls in order (type check, registry lookup, argument decoding,         *)
(* call_tool, append), then submits all outputs in one resume call, which  *)
(* attaches a fresh handler to the stream the call returns and consumes    *)
(* that stream inside the call (nested handlers).  An exception raised by  *)
(* a handler is caught nowhere in the module: it unwinds every enclosing   *)
(* stream and ends the run.                                                *)
(***************************************************************************)
EXTENDS Integers, Sequences, FiniteSets, TLC

(***************************************************************************)
(* Bounds of the model.                                                    *)
(***************************************************************************)
\* the longest batch of pending tool calls one event carries
MaxBatch == 2
\* the number of resume calls (action cycles) the remote run asks for
MaxCycles == 2
\* the number of events the remote side emits on one stream
MaxStream == 3

(***************************************************************************)
(* Text.  A raw argument payload is a sequence of one-character strings,   *)
(* so that decoding can read it character by character.                    *)
(***************************************************************************)
Quote == "\""

WhiteSpace == {" "}

Digits == {"0", "1", "2", "3", "4", "5", "6", "7", "8", "9"}

DigitChar(d) ==
    CASE d = 0 -> "0" [] d = 1 -> "1" [] d = 2 -> "2" [] d = 3 -> "3"
      [] d = 4 -> "4" [] d = 5 -> "5" [] d = 6 -> "6" [] d = 7 -> "7"
      [] d = 8 -> "8" [] d = 9 -> "9"

RECURSIVE NatToStr(_)
\* the decimal digits of a natural number
NatToStr(n) == IF n < 10 THEN DigitChar(n) ELSE NatToStr(n \div 10) \o DigitChar(n % 10)

\* Python's str() of an int
IntToStr(n) == IF n < 0 THEN "-" \o NatToStr(0 - n) ELSE NatToStr(n)

(***************************************************************************)
(* json.loads, for the subset of JSON made of objects, strings without     *)
(* escapes, unsigned integers and blanks.  A JSON value is a record        *)
(* [t, s, members]: t its type, s the text of a string or number,          *)
(* members the key/value pairs of an object.                               *)
(***************************************************************************)
JsonString(txt) == [t |-> "string", s |-> txt, members |-> <<>>]

JsonNumber(txt) == [t |-> "number", s |-> txt, members |-> <<>>]

JsonObject(ms) == [t |-> "object", s |-> "", members |-> ms]

\* the empty dict, {}
EmptyDict == JsonObject(<<>>)

ParseFail == [ok |-> FALSE, val |-> JsonString(""), next |-> 0]

ParseOk(v, p) == [ok |-> TRUE, val |-> v, next |-> p]

RECURSIVE SkipWs(_, _)
SkipWs(s, p) == IF p <= Len(s) /\ s[p] \in WhiteSpace THEN SkipWs(s, p + 1) ELSE p

RECURSIVE ScanString(_, _, _)
\* the characters after an opening quote, up to the closing one
ScanString(s, p, acc) ==
    IF p > Len(s) THEN ParseFail
    ELSE IF s[p] = Quote THEN ParseOk(JsonString(acc), p + 1)
    ELSE ScanString(s, p + 1, acc \o s[p])

RECURSIVE ScanNumber(_, _, _)
ScanNumber(s, p, acc) ==
    IF p <= Len(s) /\ s[p] \in Digits THEN ScanNumber(s, p + 1, acc \o s[p])
    ELSE ParseOk(JsonNumber(acc), p)

\* a dict assignment d[k] = v: a repeated key keeps its place and takes the new value
DictPut(ms, k, v) ==
    IF \E j \in 1..Len(ms) : ms[j].key = k
    THEN [j \in 1..Len(ms) |-> IF ms[j].key = k THEN [key |-> k, value |-> v] ELSE ms[j]]
    ELSE Append(ms, [key |-> k, value |-> v])

RECURSIVE ParseValue(_, _)
RECURSIVE ParseMembers(_, _, _)
ParseValue(s, p) ==
    LET q == SkipWs(s, p) IN
    IF q > Len(s) THEN ParseFail
    ELSE IF s[q] = "{" THEN
        LET r == SkipWs(s, q + 1) IN
        IF r <= Len(s) /\ s[r] = "}" THEN ParseOk(EmptyDict, r + 1)
        ELSE ParseMembers(s, r, <<>>)
    ELSE IF s[q] = Quote THEN ScanString(s, q + 1, "")
    ELSE IF s[q] \in Digits THEN ScanNumber(s, q, "")
    ELSE ParseFail

ParseMembers(s, p, acc) ==
    LET q == SkipWs(s, p) IN
    IF q > Len(s) \/ s[q] # Quote THEN ParseFail
    ELSE
        LET k == ScanString(s, q + 1, "") IN
        IF ~k.ok THEN ParseFail
        ELSE
            LET c == SkipWs(s, k.next) IN
            IF c > Len(s) \/ s[c] # ":" THEN ParseFail
            ELSE
                LET v == ParseValue(s, c + 1) IN
                IF ~v.ok THEN ParseFail
                ELSE
                    LET e == SkipWs(s, v.next)
                        ms == DictPut(acc, k.val.s, v.val)
                    IN
                    IF e > Len(s) THEN ParseFail
                    ELSE IF s[e] = "," THEN ParseMembers(s, e + 1, ms)
                    ELSE IF s[e] = "}" THEN ParseOk(JsonObject(ms), e + 1)
                    ELSE ParseFail

\* json.loads(s): the value, or ok = FALSE for json.JSONDecodeError
json_loads(s) ==
    LET r == ParseValue(s, 1) IN
    IF r.ok /\ SkipWs(s, r.next) > Len(s)
    THEN [ok |-> TRUE, val |-> r.val]
    ELSE [ok |-> FALSE, val |-> JsonString("")]

(***************************************************************************)
(* Python values a tool returns, and str() of them.                        *)
(***************************************************************************)
PyString(txt) == [py |-> "str", s |-> txt, n |-> 0]

PyInt(k) == [py |-> "int", s |-> "", n |-> k]

\* str(value)
PyStr(v) == IF v.py = "int" THEN IntToStr(v.n) ELSE v.s

(***************************************************************************)
(* Tools.  A FunctionTool is [name, fn]: metadata.name and what calling    *)
(* the wrapped function does, return a value or raise.                     *)
(***************************************************************************)
Returns(v) == [raises |-> FALSE, value |-> v, message |-> ""]

Raises(msg) == [raises |-> TRUE, value |-> PyString(""), message |-> msg]

FunctionTool(name, fn) == [name |-> name, fn |-> fn]

\* TemperatureAssistant.fetch_current_temperature
fetch_current_temperature ==
    FunctionTool("fetch_current_temperature", Returns(PyString("32 degrees Celsius")))

\* TemperatureAssistant.fetch_forecast_temperature
fetch_forecast_temperature ==
    FunctionTool("fetch_forecast_temperature", Returns(PyString("35 degrees Celsius")))

\* a tool whose function raises
failing_tool == FunctionTool("failing_tool", Raises("upstream unavailable"))

\* a tool whose return value is not a string
count_tool == FunctionTool("count_tool", Returns(PyInt(32)))

\* an earlier declaration under the name fetch_current_temperature
stale_temperature ==
    FunctionTool("fetch_current_temperature", Returns(PyString("-1 degrees Celsius")))

\* the tool lists a handler is constructed with
ToolLists ==
    { <<fetch_current_temperature, fetch_forecast_temperature, failing_tool, count_tool>>,
      <<stale_temperature, failing_tool, count_tool, fetch_forecast_temperature,
        fetch_current_temperature>> }

RECURSIVE RegistryOf(_, _)
\* {tool.metadata.name: tool for tool in tools}, as an insertion-ordered dict
RegistryOf(tools, acc) ==
    IF tools = <<>> THEN acc
    ELSE RegistryOf(Tail(tools), DictPut(acc, Head(tools).name, Head(tools)))

\* EventHandler.__init__: self.tools_by_name
BuildRegistry(tools) == RegistryOf(tools, <<>>)

\* Values with the tool registered last left out
ValuesWithoutLast(reg) == [j \in 1..(Len(reg) - 1) |-> reg[j].value]

\* tools_by_name.values()
Values(reg) == [j \in 1..Len(reg) |-> reg[j].value]

\* name in tools_by_name
HasKey(reg, name) == \E j \in 1..Len(reg) : reg[j].key = name

\* tools_by_name[name], for a name that is a key
GetItem(reg, name) == reg[CHOOSE j \in 1..Len(reg) : reg[j].key = name].value

(***************************************************************************)
(* The remote side: runs, pending tool calls, events.                      *)
(***************************************************************************)
NoRun == [id |-> "", thread_id |-> ""]

Runs == { [id |-> "run_1", thread_id |-> "thread_1"],
          [id |-> "run_2", thread_id |-> "thread_2"] }

ToolCall(id, type, name, arguments) ==
    [id |-> id, type |-> type, function |-> [name |-> name, arguments |-> arguments]]

\* raw argument payloads: "", {}, {"a":1} and the truncated {"a":1
NoArguments == <<>>

EmptyObject == <<"{", "}">>

OneArgument == <<"{", Quote, "a", Quote, ":", "1", "}">>

Truncated == <<"{", Quote, "a", Quote, ":", "1">>

\* what one pending call can ask for: its type, tool name and raw arguments
CallShapes ==
    { <<"function", "fetch_current_temperature", NoArguments>>,
      <<"function", "failing_tool", EmptyObject>>,
      <<"function", "count_tool", OneArgument>>,
      <<"function", "nonexistent_tool", NoArguments>>,
      <<"function", "fetch_current_temperature", Truncated>>,
      <<"function", "nonexistent_tool", Truncated>>,
      <<"code_interpreter", "fetch_current_temperature", NoArguments>> }

CallId(k) == "call_" \o NatToStr(k)

\* the ids of a batch of n calls are distinct and opaque: they do not follow the
\* positions of the calls
IdAt(n, k) == CallId(n + 1 - k)

BatchesOfLen(n) ==
    { [k \in 1..n |-> ToolCall(IdAt(n, k), shapes[k][1], shapes[k][2], shapes[k][3])] :
        shapes \in [1..n -> CallShapes] }

\* the batches of pending tool calls a "requires action" event can carry
Batches == UNION { BatchesOfLen(n) : n \in 0..MaxBatch }

\* event.data of a run event: the run, with the tool calls of its required action
RunData(run, tool_calls) ==
    [id |-> run.id, thread_id |-> run.thread_id, tool_calls |-> tool_calls]

Event(kind, data) == [event |-> kind, data |-> data]

(***************************************************************************)
(* The exceptions handle_requires_action lets escape.                      *)
(***************************************************************************)
NoException == [exc |-> "", text |-> "", arg |-> <<>>]

\* raise Exception(f"Unexpected tool_call.type={tool_call.type}")
UnexpectedType(tool_call) ==
    [exc |-> "Exception", text |-> "Unexpected tool_call.type=", arg |-> <<tool_call.type>>]

\* self.tools_by_name[name] for a missing name: KeyError(name)
MissingKey(tool_call) ==
    [exc |-> "KeyError", text |-> "", arg |-> <<tool_call.function.name>>]

\* raise Exception(f"Failed to parse tool arguments: {arguments}") from e
FailedToParse(tool_call) ==
    [exc |-> "Exception", text |-> "Failed to parse tool arguments: ",
     arg |-> tool_call.function.arguments]

\* what submit_tool_outputs_stream raises when the request does not get through
APIConnectionError ==
    [exc |-> "APIConnectionError", text |-> "Connection error.", arg |-> <<>>]

(***************************************************************************)
(* One iteration of the loop of handle_requires_action.                    *)
(***************************************************************************)
\* IsFunctionCall with the check of the call type left out
IsFunctionCallUnchecked(tool_call) == TRUE

\* if tool_call.type != "function": raise
IsFunctionCall(tool_call) == tool_call.type = "function"

\* tool = self.tools_by_name[tool_call.function.name] finds a tool
Resolves(reg, tool_call) == HasKey(reg, tool_call.function.name)

\* DecodeArguments without the branch for the empty string
DecodeArgumentsWithoutEmptyCase(arguments) == json_loads(arguments)

\* DecodeArguments with the except branch falling back to {} instead of raising
DecodeArgumentsDefaulting(arguments) ==
    IF arguments = <<>> \/ ~json_loads(arguments).ok THEN [ok |-> TRUE, val |-> EmptyDict]
    ELSE json_loads(arguments)

\* the try block: {} for the empty string, json.loads otherwise
DecodeArguments(arguments) ==
    IF arguments = <<>> THEN [ok |-> TRUE, val |-> EmptyDict]
    ELSE json_loads(arguments)

\* call_tool(tool, tool_kwargs): the tool's return value, or its exception caught
\* and turned into a failure outcome
call_tool(tool, tool_kwargs) ==
    IF tool.fn.raises
    THEN [is_error |-> TRUE, value |-> PyString(""), kind |-> "ToolExecutionError",
          message |-> tool.fn.message]
    ELSE [is_error |-> FALSE, value |-> tool.fn.value, kind |-> "", message |-> ""]

\* the text a failure outcome is reported as
FailureText(kind, message) == kind \o ": " \o message

\* str(output) of what call_tool returned
OutputStr(output) ==
    IF output.is_error THEN FailureText(output.kind, output.message)
    ELSE PyStr(output.value)

\* OutputEntry with the output appended as it is, str() forgotten
OutputEntryWithoutStr(tool_call, output) ==
    [tool_call_id |-> tool_call.id, output |-> output.value.s]

\* OutputEntry with the text of a failed call left out
OutputEntryDropsFailure(tool_call, output) ==
    [tool_call_id |-> tool_call.id,
     output |-> IF output.is_error THEN "" ELSE OutputStr(output)]

\* {"tool_call_id": tool_call.id, "output": str(output)}
OutputEntry(tool_call, output) ==
    [tool_call_id |-> tool_call.id, output |-> OutputStr(output)]

\* IterationException with the arguments decoded before the tool is looked up
IterationExceptionDecodeFirst(reg, tool_call) ==
    IF ~IsFunctionCall(tool_call) THEN UnexpectedType(tool_call)
    ELSE IF ~DecodeArguments(tool_call.function.arguments).ok THEN FailedToParse(tool_call)
    ELSE IF ~Resolves(reg, tool_call) THEN MissingKey(tool_call)
    ELSE NoException

\* IterationException with the failure of a tool raised again after call_tool
IterationExceptionReraises(reg, tool_call) ==
    IF ~IsFunctionCall(tool_call) THEN UnexpectedType(tool_call)
    ELSE IF ~Resolves(reg, tool_call) THEN MissingKey(tool_call)
    ELSE IF ~DecodeArguments(tool_call.function.arguments).ok THEN FailedToParse(tool_call)
    ELSE IF GetItem(reg, tool_call.function.name).fn.raises
    THEN [exc |-> "Exception", text |-> GetItem(reg, tool_call.function.name).fn.message,
          arg |-> <<>>]
    ELSE NoException

\* the exception one iteration raises, NoException when it raises none
IterationException(reg, tool_call) ==
    IF ~IsFunctionCall(tool_call) THEN UnexpectedType(tool_call)
    ELSE IF ~Resolves(reg, tool_call) THEN MissingKey(tool_call)
    ELSE IF ~DecodeArguments(tool_call.function.arguments).ok THEN FailedToParse(tool_call)
    ELSE NoException

\* what the call of call_tool in one iteration is: the tool, its arguments, the outcome
Invocation(reg, tool_call) ==
    LET tool == GetItem(reg, tool_call.function.name)
        tool_kwargs == DecodeArguments(tool_call.function.arguments).val
    IN  [tool_call_id |-> tool_call.id, tool |-> tool, tool_kwargs |-> tool_kwargs,
         output |-> call_tool(tool, tool_kwargs)]

\* NextCall with the batch walked from its end
NextCallReversed(tool_calls, done) == tool_calls[Len(tool_calls) - done]

\* for tool_call in ...tool_calls: the call of the iteration after `done` iterations
NextCall(tool_calls, done) == tool_calls[done + 1]

\* LoopRuns with the last call of the batch left out
LoopRunsSkipsLast(tool_calls, done) == done < Len(tool_calls) - 1

\* LoopRuns with the submission moved into the loop body: the loop is left after
\* its first iteration
LoopRunsOnce(tool_calls, done) == done < Len(tool_calls) /\ done < 1

\* for tool_call in ...tool_calls: the loop runs while calls are left
LoopRuns(tool_calls, done) == done < Len(tool_calls)

(***************************************************************************)
(* submit_tool_outputs.                                                    *)
(***************************************************************************)
\* ResumeCall with the two ids of the run exchanged
ResumeCallSwapsIds(self, tool_outputs) ==
    [thread_id |-> self.current_run.id, run_id |-> self.current_run.thread_id,
     tool_outputs |-> tool_outputs]

\* the arguments of submit_tool_outputs_stream, for the handler `self`
ResumeCall(self, tool_outputs) ==
    [thread_id |-> self.current_run.thread_id, run_id |-> self.current_run.id,
     tool_outputs |-> tool_outputs]

\* EventHandler(client=self.client, tools=self.tools_by_name.values()), not yet
\* given an event
NewHandler(tools) == [tools_by_name |-> BuildRegistry(tools), current_run |-> NoRun, n |-> 0]

NoResume == [thread_id |-> "", run_id |-> "", tool_outputs |-> <<>>]

(***************************************************************************)
(* State.                                                                  *)
(***************************************************************************)
VARIABLES
    tools,            \* the tool list the first handler is constructed with
    remote_run,       \* the run the remote side executes
    handlers,         \* the handlers whose streams are open, innermost last
    pc,               \* "stream", "handle", "done" or "failed"
    data,             \* handle_requires_action: event.data of the event handled
    done,             \* handle_requires_action: the tool calls the loop has been through
    output_str_list,  \* handle_requires_action: the outputs collected
    invoked,          \* the calls of call_tool made since the last event
    resume,           \* the resume call made since the last event, with its batch
    exception,        \* the exception that ended the run
    cycles,           \* resume calls made so far
    pauses,           \* "requires action" events received so far
    attempts          \* the times the resume call was tried since the last event

vars == <<tools, remote_run, handlers, pc, data, done, output_str_list, invoked,
          resume, exception, cycles, pauses, attempts>>

NoData == RunData(NoRun, <<>>)

NoSubmission == [call |-> NoResume, tool_calls |-> <<>>, made |-> FALSE]

Init ==
    /\ tools \in ToolLists
    /\ remote_run \in Runs
    /\ handlers = <<NewHandler(tools)>>
    /\ pc = "stream"
    /\ data = NoData
    /\ done = 0
    /\ output_str_list = <<>>
    /\ invoked = <<>>
    /\ resume = NoSubmission
    /\ exception = NoException
    /\ cycles = 0
    /\ pauses = 0
    /\ attempts = 0

\* the handler whose stream is being consumed
Top == handlers[Len(handlers)]

\* WithTop with the first handler replaced, whatever streams are open
WithBottom(h) == [handlers EXCEPT ![1] = h]

\* the handlers with the innermost one replaced
WithTop(h) == [handlers EXCEPT ![Len(handlers)] = h]

(***************************************************************************)
(* The events the remote side can put next on the innermost stream.  It    *)
(* pauses a run only after it reported the run in progress on this stream. *)
(***************************************************************************)
OtherEvents ==
    { Event("thread.run.in_progress", RunData(remote_run, <<>>)),
      Event("thread.message.delta", NoData) }

RequiresActionEvents ==
    IF Top.current_run # NoRun /\ cycles < MaxCycles
    THEN { Event("thread.run.requires_action", RunData(remote_run, tool_calls)) :
             tool_calls \in Batches }
    ELSE {}

\* RequiresAction with every event of a run taken for a pause
RequiresActionAnyRunEvent(event) == event.event # "thread.message.delta"

\* if event.event == "thread.run.requires_action"
RequiresAction(event) == event.event = "thread.run.requires_action"

\* the "requires action" events received, after this one
PausesAfter(event) ==
    IF event.event = "thread.run.requires_action" THEN pauses + 1 ELSE pauses

(***************************************************************************)
(* The stream gives the innermost handler an event that is not "requires   *)
(* action": on_event does nothing.  The library keeps the run of a run     *)
(* event as the handler's current_run.                                     *)
(***************************************************************************)
on_event_other(event) ==
    /\ pc = "stream"
    /\ Top.n < MaxStream
    /\ handlers' = WithTop([Top EXCEPT !.n = @ + 1,
                                       !.current_run =
                                           IF event.event = "thread.run.in_progress"
                                           THEN [id |-> event.data.id,
                                                 thread_id |-> event.data.thread_id]
                                           ELSE @])
    /\ resume' = NoSubmission
    /\ invoked' = <<>>
    /\ pauses' = PausesAfter(event)
    /\ attempts' = 0
    /\ UNCHANGED <<tools, remote_run, pc, data, done, output_str_list,
                   exception, cycles>>

(***************************************************************************)
(* The stream gives the innermost handler a "requires action" event:       *)
(* on_event enters handle_requires_action with event.data.                 *)
(***************************************************************************)
on_event_requires_action(event) ==
    /\ pc = "stream"
    /\ Top.n < MaxStream
    /\ handlers' = WithTop([Top EXCEPT !.n = @ + 1])
    /\ pc' = "handle"
    /\ data' = event.data
    /\ done' = 0
    /\ output_str_list' = <<>>
    /\ invoked' = <<>>
    /\ resume' = NoSubmission
    /\ pauses' = PausesAfter(event)
    /\ attempts' = 0
    /\ UNCHANGED <<tools, remote_run, exception, cycles>>

\* on_event: only a "requires action" event is handled
on_event(event) ==
    IF RequiresAction(event) THEN on_event_requires_action(event)
    ELSE on_event_other(event)

(***************************************************************************)
(* One iteration of the loop: the next tool call is checked, resolved,     *)
(* decoded and called, and its output appended; or the iteration raises,   *)
(* and the exception leaves every open stream.                             *)
(***************************************************************************)
loop_iteration ==
    /\ pc = "handle"
    /\ LoopRuns(data.tool_calls, done)
    /\ LET tool_call == NextCall(data.tool_calls, done)
           exc == IterationException(Top.tools_by_name, tool_call)
       IN  IF exc # NoException
           THEN /\ pc' = "failed"
                /\ exception' = exc
                /\ handlers' = <<>>
                /\ UNCHANGED <<done, output_str_list, invoked>>
           ELSE LET inv == Invocation(Top.tools_by_name, tool_call) IN
                /\ invoked' = Append(invoked, inv)
                /\ output_str_list' = Append(output_str_list, OutputEntry(tool_call, inv.output))
                /\ done' = done + 1
                /\ UNCHANGED <<pc, exception, handlers>>
    /\ UNCHANGED <<tools, remote_run, data, resume, cycles, pauses, attempts>>

(***************************************************************************)
(* The loop is over: submit_tool_outputs makes the resume call with        *)
(* everything collected and a fresh handler for the stream it returns,     *)
(* which is consumed inside the call.                                      *)
(***************************************************************************)
submit_tool_outputs ==
    /\ pc = "handle"
    /\ ~LoopRuns(data.tool_calls, done)
    /\ resume' = [call |-> ResumeCall(Top, output_str_list),
                  tool_calls |-> data.tool_calls, made |-> TRUE]
    /\ handlers' = Append(handlers, NewHandler(Values(Top.tools_by_name)))
    /\ cycles' = cycles + 1
    /\ attempts' = attempts + 1
    /\ pc' = "stream"
    /\ data' = NoData
    /\ done' = 0
    /\ output_str_list' = <<>>
    /\ UNCHANGED <<tools, remote_run, invoked, exception, pauses>>

(***************************************************************************)
(* The loop is over and the resume call does not get through to the remote *)
(* side: the client raises its connection error out of the call.  Nothing  *)
(* around the call catches it or makes the call again, so it leaves every  *)
(* open stream as any other exception does.                                *)
(***************************************************************************)
submit_tool_outputs_raises ==
    /\ pc = "handle"
    /\ ~LoopRuns(data.tool_calls, done)
    /\ attempts' = attempts + 1
    /\ pc' = "failed"
    /\ exception' = APIConnectionError
    /\ handlers' = <<>>
    /\ UNCHANGED <<tools, remote_run, data, done, output_str_list, invoked,
                   resume, cycles, pauses>>

\* AfterStreamEnd with the end of the first stream taken for the end of a resumed one
AfterStreamEndNeverDone(open) == "stream"

\* where control is once the innermost of `open` streams has ended: back in the
\* stream of the handler that made the resume call, or out of the run loop
AfterStreamEnd(open) == IF open = 1 THEN "done" ELSE "stream"

(***************************************************************************)
(* The innermost stream ends: its handler is gone, and the handler that    *)
(* made the resume call goes on with its own stream; the run loop is over  *)
(* when the first stream ends.                                             *)
(***************************************************************************)
stream_end ==
    /\ pc = "stream"
    /\ handlers' = SubSeq(handlers, 1, Len(handlers) - 1)
    /\ pc' = AfterStreamEnd(Len(handlers))
    /\ resume' = NoSubmission
    /\ invoked' = <<>>
    /\ attempts' = 0
    /\ UNCHANGED <<tools, remote_run, data, done, output_str_list,
                   exception, cycles, pauses>>

Next ==
    \/ /\ pc = "stream"
       /\ \E event \in OtherEvents \cup RequiresActionEvents : on_event(event)
    \/ loop_iteration
    \/ submit_tool_outputs
    \/ submit_tool_outputs_raises
    \/ stream_end

Spec == Init /\ [][Next]_vars

(***************************************************************************)
(* What the claims speak of.                                               *)
(***************************************************************************)
\* the batch of the event handled last: the one being walked, or the one submitted
Batch == IF resume.made THEN resume.tool_calls ELSE data.tool_calls

\* the outputs passed to the resume call
Submitted == resume.call.tool_outputs

\* the tool a name is declared as: the last tool of that name in the tool list
DeclaredTool(name) ==
    tools[CHOOSE j \in 1..Len(tools) :
            /\ tools[j].name = name
            /\ \A l \in (j + 1)..Len(tools) : tools[l].name # name]

Declared(name) == \E j \in 1..Len(tools) : tools[j].name = name

\* the error kinds of the specification, as the exceptions of the code
UnknownToolError(e) == e.exc = "KeyError"

ProtocolViolationError(e) == e.exc = "Exception" /\ e.text = "Unexpected tool_call.type="

ArgumentDecodeError(e) ==
    e.exc = "Exception" /\ e.text = "Failed to parse tool arguments: "

\* how often a call id occurs among the ids of a sequence of records
Occurrences(ids, id) == Cardinality({k \in 1..Len(ids) : ids[k] = id})

CallIds(tool_calls) == [k \in 1..Len(tool_calls) |-> tool_calls[k].id]

OutputIds(tool_outputs) == [k \in 1..Len(tool_outputs) |-> tool_outputs[k].tool_call_id]

Range(f) == {f[k] : k \in 1..Len(f)}

\* C1: the batch passed to a resume call has exactly one entry per pending call of
\* the event, and its call ids are a permutation of the event's call ids: every id
\* occurs as often among the outputs as among the pending calls.
C1_SubmissionIsPermutation ==
    resume.made =>
        /\ Len(Submitted) = Len(resume.tool_calls)
        /\ \A id \in Range(CallIds(resume.tool_calls)) \cup Range(OutputIds(Submitted)) :
               Occurrences(OutputIds(Submitted), id)
                   = Occurrences(CallIds(resume.tool_calls), id)

\* a resume call for a batch of two calls whose ids come in descending order
C1_Witness ==
    /\ resume.made
    /\ CallIds(resume.tool_calls) = <<"call_2", "call_1">>
    /\ Len(Submitted) = 2

\* C2: a tool that raises does not abort its siblings.  While a batch is walked
\* every call gone through has been invoked and has an output, whether or not its
\* tool raised; a run fails only for the shape of the call the loop is at or,
\* the loop over, for the resume call itself, never for a tool that raised; and
\* at the resume call every call of the batch has been invoked.
C2_RaisingToolKeepsSiblings ==
    /\ pc = "handle" =>
           /\ Len(invoked) = done
           /\ Len(output_str_list) = done
           /\ \A k \in 1..done : invoked[k].tool_call_id = data.tool_calls[k].id
    /\ pc = "failed" =>
           \/ /\ done < Len(data.tool_calls)
              /\ exception \in { UnexpectedType(data.tool_calls[done + 1]),
                                 MissingKey(data.tool_calls[done + 1]),
                                 FailedToParse(data.tool_calls[done + 1]) }
           \/ /\ done = Len(data.tool_calls)
              /\ Len(invoked) = done
              /\ exception = APIConnectionError
    /\ resume.made =>
           /\ Len(invoked) = Len(resume.tool_calls)
           /\ \A k \in 1..Len(invoked) :
                  /\ invoked[k].tool_call_id = resume.tool_calls[k].id
                  /\ Submitted[k].tool_call_id = resume.tool_calls[k].id

\* a batch submitted whose first tool raised and whose second tool returned
C2_Witness ==
    /\ resume.made
    /\ Len(invoked) = 2
    /\ invoked[1].output.is_error
    /\ ~invoked[2].output.is_error

\* C3: when a tool of a batch raises, the batch is still answered by one resume
\* call: the entry of a call whose tool raised is the failure text with the
\* exception's message, the entry of a call whose tool returned is that tool's
\* return value as a string, and the run goes on with the new stream.
C3_FailureStaysLocal ==
    (resume.made /\ \E k \in 1..Len(invoked) : invoked[k].tool.fn.raises) =>
        /\ \A k \in 1..Len(invoked) :
               Submitted[k].output =
                   IF invoked[k].tool.fn.raises
                   THEN FailureText("ToolExecutionError", invoked[k].tool.fn.message)
                   ELSE PyStr(invoked[k].tool.fn.value)
        /\ cycles = pauses
        /\ pc = "stream"
        /\ exception = NoException
        /\ Len(handlers) >= 2
        /\ Top.n = 0

\* a batch of a raising tool and a returning tool, submitted
C3_Witness ==
    /\ resume.made
    /\ Len(Submitted) = 2
    /\ invoked[2].tool.fn.raises
    /\ Submitted[2].output = "ToolExecutionError: upstream unavailable"
    /\ Submitted[1].output = "32 degrees Celsius"

\* the run failed inside the loop of handle_requires_action
Aborted == pc = "failed" /\ done < Len(data.tool_calls)

\* the call the loop was at when the run failed
FailedCall == data.tool_calls[done + 1]

\* C4 as stated: a batch with a call naming an undeclared tool, once handled, has
\* failed with UnknownToolError and no resume call was made for it.
C4_UnknownToolAlwaysUnknownToolError ==
    (pc # "handle" /\ \E k \in 1..Len(Batch) : ~Declared(Batch[k].function.name)) =>
        /\ pc = "failed"
        /\ UnknownToolError(exception)
        /\ ~resume.made

\* C4, amended: a batch with a call naming an undeclared tool, once handled, has
\* failed and no resume call was made for it, wherever the call stands; the
\* failure is the KeyError of that name when the call the loop stopped at is a
\* function call naming an undeclared tool (no earlier call aborted, and the call
\* type is checked before the lookup).
C4_UnknownToolFailsBatch ==
    /\ (pc # "handle" /\ \E k \in 1..Len(Batch) : ~Declared(Batch[k].function.name)) =>
           /\ pc = "failed"
           /\ ~resume.made
           /\ cycles + 1 = pauses
    /\ (Aborted /\ FailedCall.type = "function"
                      /\ ~Declared(FailedCall.function.name)) =>
           /\ UnknownToolError(exception)
           /\ exception = MissingKey(FailedCall)

\* a run failed with KeyError at the second call of a batch, after one tool was called
C4_Witness ==
    /\ pc = "failed"
    /\ UnknownToolError(exception)
    /\ done = 1
    /\ Len(invoked) = 1
    /\ ~resume.made

\* C5: the empty argument string decodes to the empty argument set and never to
\* an error: a call with arguments "" that reaches a tool reaches it with {}, no
\* run fails on decoding "", and a function call to a declared tool with
\* arguments "" is never the call a run fails at.
C5_EmptyArgumentsDecode ==
    /\ \A k \in 1..Len(invoked) :
           Batch[k].function.arguments = <<>> => invoked[k].tool_kwargs = EmptyDict
    /\ (pc = "failed" /\ ArgumentDecodeError(exception)) => exception.arg # <<>>
    /\ Aborted =>
           ~ /\ FailedCall.type = "function"
             /\ Declared(FailedCall.function.name)
             /\ FailedCall.function.arguments = <<>>

\* fetch_current_temperature called with {} for the arguments ""
C5_Witness ==
    /\ Len(invoked) >= 1
    /\ Batch[1].function.arguments = <<>>
    /\ invoked[1].tool.name = "fetch_current_temperature"
    /\ invoked[1].tool_kwargs = EmptyDict

\* a non-empty argument string json.loads rejects
Malformed(arguments) == arguments # <<>> /\ ~json_loads(arguments).ok

\* C6: a malformed argument string is never replaced by an empty or default
\* argument set.  A tool is called only with what json.loads made of its non-empty
\* argument string; a run that stops at a function call to a declared tool with
\* malformed arguments has failed with the parse failure that carries the raw
\* string; and no batch with such a call is submitted.
C6_MalformedArgumentsRaise ==
    /\ \A k \in 1..Len(invoked) :
           Batch[k].function.arguments # <<>> =>
               /\ ~Malformed(Batch[k].function.arguments)
               /\ invoked[k].tool_kwargs = json_loads(Batch[k].function.arguments).val
    /\ (Aborted /\ FailedCall.type = "function"
                      /\ Declared(FailedCall.function.name)
                      /\ Malformed(FailedCall.function.arguments)) =>
           /\ ArgumentDecodeError(exception)
           /\ exception.arg = FailedCall.function.arguments
    /\ resume.made =>
           \A k \in 1..Len(resume.tool_calls) :
               ~Malformed(resume.tool_calls[k].function.arguments)

\* a run failed on the truncated payload of the second call of a batch
C6_Witness ==
    /\ pc = "failed"
    /\ ArgumentDecodeError(exception)
    /\ exception.arg = Truncated
    /\ done = 1
    /\ Len(invoked) = 1

\* C7 as stated: a batch with a call of a type other than "function", once
\* handled, has failed with ProtocolViolationError and no resume call was made.
C7_NonFunctionAlwaysProtocolViolation ==
    (pc # "handle" /\ \E k \in 1..Len(Batch) : Batch[k].type # "function") =>
        /\ pc = "failed"
        /\ ProtocolViolationError(exception)
        /\ ~resume.made

\* C7, amended: a batch with a call of a type other than "function", once handled,
\* has failed the whole run: no resume call was made for it, no stream is left
\* open and no step is left to take, so nothing is retried; the failure is the
\* "Unexpected tool_call.type" exception when the call the loop stopped at is the
\* non-function call (no earlier call aborted).
C7_NonFunctionFailsRun ==
    /\ (pc # "handle" /\ \E k \in 1..Len(Batch) : Batch[k].type # "function") =>
           /\ pc = "failed"
           /\ ~resume.made
           /\ cycles + 1 = pauses
           /\ handlers = <<>>
           /\ ~ENABLED Next
    /\ (Aborted /\ FailedCall.type # "function") =>
           /\ ProtocolViolationError(exception)
           /\ exception = UnexpectedType(FailedCall)

\* a run failed on the call type of the second call of a batch
C7_Witness ==
    /\ pc = "failed"
    /\ ProtocolViolationError(exception)
    /\ exception.arg = <<"code_interpreter">>
    /\ done = 1
    /\ Len(invoked) = 1

\* C8: each "requires action" event handled without a fatal error gets exactly one
\* resume call, made only when the loop has been through every call of the batch
\* and holds an output for each.  While a batch is walked no resume call has been
\* made for it; between events every pause has had its resume call; a step that
\* makes a resume call makes one, from a handler whose loop is over.
C8_OneResumeAfterAllCalls ==
    /\ [](/\ pc = "handle" => (~resume.made /\ cycles + 1 = pauses)
          /\ pc = "failed" => (~resume.made /\ cycles + 1 = pauses)
          /\ pc \in {"stream", "done"} => cycles = pauses
          /\ resume.made =>
                 /\ Len(invoked) = Len(resume.tool_calls)
                 /\ Len(Submitted) = Len(resume.tool_calls))
    /\ [][(cycles' # cycles \/ resume'.made) =>
              /\ pc = "handle"
              /\ done = Len(data.tool_calls)
              /\ Len(output_str_list) = Len(data.tool_calls)
              /\ Len(invoked) = Len(data.tool_calls)
              /\ cycles' = cycles + 1
              /\ pauses' = pauses
              /\ resume'.made
              /\ resume'.tool_calls = data.tool_calls]_vars

\* the second resume call of a run, for a batch of two calls
C8_Witness ==
    /\ resume.made
    /\ cycles = 2
    /\ pauses = 2
    /\ Len(resume.tool_calls) = 2
    /\ Len(invoked) = 2

\* C9: for every call of a batch whose tool returns, the entry submitted under the
\* call's id is str() of the return value of the tool declared under the call's
\* name; a single call of fetch_current_temperature with the arguments "" gives
\* the batch [(call_1, "32 degrees Celsius")], the int 32 is submitted as "32".
C9_OutputIsDisplayString ==
    resume.made =>
        /\ \A k \in 1..Len(resume.tool_calls) :
               LET call == resume.tool_calls[k] IN
               (Declared(call.function.name)
                   /\ ~DeclaredTool(call.function.name).fn.raises) =>
                   /\ k <= Len(Submitted)
                   /\ Submitted[k] =
                          [tool_call_id |-> call.id,
                           output |-> PyStr(DeclaredTool(call.function.name).fn.value)]
        /\ resume.tool_calls
               = <<ToolCall("call_1", "function", "fetch_current_temperature", <<>>)>> =>
               Submitted = <<[tool_call_id |-> "call_1", output |-> "32 degrees Celsius"]>>
        /\ \A k \in 1..Len(resume.tool_calls) :
               resume.tool_calls[k].function.name = "count_tool" =>
                   (k <= Len(Submitted) /\ Submitted[k].output = "32")

\* the one resume call of scenario A
C9_Witness ==
    /\ resume.made
    /\ cycles = 1
    /\ resume.tool_calls
           = <<ToolCall("call_1", "function", "fetch_current_temperature", <<>>)>>
    /\ Submitted = <<[tool_call_id |-> "call_1", output |-> "32 degrees Celsius"]>>

\* a configured maximum of action cycles below the number of pauses of the run
MaxActionCycles == MaxCycles - 1

\* C10 as stated: the action cycles of a run never exceed the configured maximum,
\* and a pause beyond it fails the run with RunExhaustedError.
C10_CyclesNeverExceedMaximum ==
    /\ cycles <= MaxActionCycles
    /\ pauses > MaxActionCycles => (pc = "failed" /\ exception.exc = "RunExhaustedError")


\* C11 as stated: a resume call that fails with a transient network error is made
\* again for the same batch, so that a run that failed on the connection error has
\* tried the call more than once, and a resume call that got through after a
\* failed try has submitted its batch once.
C11_TransientErrorIsRetried ==
    /\ (pc = "failed" /\ exception = APIConnectionError) => attempts > 1
    /\ (resume.made /\ attempts > 1) =>
           /\ cycles = pauses
           /\ CallIds(resume.tool_calls) = OutputIds(Submitted)

\* the tool list names a tool twice
HasDuplicateNames(ts) ==
    \E i \in 1..Len(ts) : \E j \in (i + 1)..Len(ts) : ts[i].name = ts[j].name

\* C12 as stated: a tool list that names a tool twice is refused with
\* DuplicateToolError, so no handler holds a registry built from it.
C12_DuplicateNamesRejected ==
    HasDuplicateNames(tools) =>
        /\ handlers = <<>>
        /\ pc = "failed"
        /\ exception.exc = "DuplicateToolError"


(***************************************************************************)
(* The run with its scheduling: the handler is ordinary sequential code,   *)
(* so a loop iteration or a resume call that can be taken is taken, and    *)
(* every event stream ends.                                                *)
(***************************************************************************)
\* weak fairness of loop_iteration, by its definition: the loop can take a step
\* exactly while it runs, and its steps are those that raise or go one call on
LoopFairness ==
    \/ []<>~(pc = "handle" /\ LoopRuns(data.tool_calls, done))
    \/ []<><<pc = "handle" /\ LoopRuns(data.tool_calls, done)
                           /\ (pc' = "failed" \/ done' = done + 1)>>_vars

FairSpec ==
    /\ Spec
    /\ LoopFairness
    /\ WF_vars(submit_tool_outputs \/ submit_tool_outputs_raises)
    /\ WF_vars(stream_end)

\* the run loop has returned: the first stream ended, or an exception left it
Terminal == pc \in {"done", "failed"}

\* C13: the tool loop reaches a terminal state and returns only in one.  No
\* handler is left with an open stream exactly when the run is done or failed;
\* every run ends done or failed; every batch being handled is followed by a
\* resume call or by the failure of the run, and the resume call made is the one
\* for the batch of the event handled.
C13_LoopReachesTerminalState ==
    /\ [](handlers = <<>> <=> Terminal)
    /\ <>[]Terminal
    /\ (pc = "handle") ~> (resume.made \/ pc = "failed")
    /\ [][(pc = "handle" /\ pc' = "handle") => data' = data]_vars
    /\ [][(resume'.made /\ ~resume.made) =>
              (pc = "handle" /\ resume'.tool_calls = data.tool_calls)]_vars

\* a run completed after a batch was resumed and its resumed stream ended
C13_Witness ==
    /\ pc = "done"
    /\ cycles = 2
    /\ pauses = 2


\* C14: order is preserved.  The outputs collected, and the outputs submitted,
\* stand in the order of the pending calls of the event; the tools are invoked in
\* that order: every invocation is the one of the call next in the batch, added
\* after the invocations of the calls before it.
C14_OrderPreserved ==
    /\ [](pc = "handle" =>
              \A k \in 1..Len(output_str_list) :
                  output_str_list[k].tool_call_id = data.tool_calls[k].id)
    /\ [](resume.made =>
              /\ OutputIds(Submitted) = CallIds(resume.tool_calls)
              /\ [k \in 1..Len(invoked) |-> invoked[k].tool_call_id]
                     = CallIds(resume.tool_calls))
    /\ [][(invoked' # invoked /\ invoked' # <<>>) =>
              /\ pc = "handle"
              /\ Len(invoked) = done
              /\ invoked' = Append(invoked,
                                   Invocation(Top.tools_by_name, data.tool_calls[done + 1]))]_vars

\* a batch submitted as [count_tool's output, fetch_current_temperature's output],
\* the order of its calls
C14_Witness ==
    /\ resume.made
    /\ Len(resume.tool_calls) = 2
    /\ resume.tool_calls[1].function.name = "count_tool"
    /\ resume.tool_calls[2].function.name = "fetch_current_temperature"
    /\ Submitted[1] = [tool_call_id |-> "call_2", output |-> "32"]
    /\ Submitted[2] = [tool_call_id |-> "call_1", output |-> "32 degrees Celsius"]


\* C15: an event that is not "requires action" is ignored.  A step in which the
\* innermost handler is given an event, and no "requires action" event is
\* received, calls no tool, makes no resume call, stays in the stream, and leaves
\* the registry of every handler, the batch state and the counts of the run as
\* they were; the only change is the library's own note of the event (its count
\* and, for a run event, current_run).
C15_OtherEventsIgnored ==
    [][(/\ pc = "stream"
        /\ Len(handlers') = Len(handlers)
        /\ handlers' # handlers
        /\ pauses' = pauses) =>
           /\ pc' = "stream"
           /\ invoked' = <<>>
           /\ ~resume'.made
           /\ attempts' = 0
           /\ cycles' = cycles
           /\ exception' = exception
           /\ <<data', done', output_str_list'>> = <<data, done, output_str_list>>
           /\ \A k \in 1..Len(handlers) :
                  handlers'[k].tools_by_name = handlers[k].tools_by_name
           /\ \A k \in 1..(Len(handlers) - 1) : handlers'[k] = handlers[k]]_vars

\* a resumed stream that gave its handler two events, none of them a pause
C15_Witness ==
    /\ pc = "stream"
    /\ Len(handlers) = 2
    /\ Top.n = 2
    /\ pauses = 1
    /\ cycles = 1
    /\ Top.current_run # NoRun


ToolNames ==
    { shape[2] : shape \in CallShapes } \cup
    UNION { { ts[j].name : j \in 1..Len(ts) } : ts \in ToolLists }

\* two registries resolve the same names, to the same tools
SameResolution(r1, r2) ==
    \A name \in ToolNames :
        /\ HasKey(r1, name) <=> HasKey(r2, name)
        /\ HasKey(r1, name) => GetItem(r1, name) = GetItem(r2, name)

\* C17: the registry is read-only after construction and carried unchanged
\* through re-entry.  The handler of every stream, first or resumed, resolves the
\* names as the registry built from the tool list at construction does; and no
\* step adds, removes or replaces an entry in the registry of a handler that
\* stays.
C17_RegistryCarriedUnchanged ==
    /\ [](\A k \in 1..Len(handlers) :
              SameResolution(handlers[k].tools_by_name, BuildRegistry(tools)))
    /\ [][/\ tools' = tools
          /\ \A k \in 1..Len(handlers) :
                 k <= Len(handlers') =>
                     handlers'[k].tools_by_name = handlers[k].tools_by_name]_vars

\* the handler of a stream resumed from a resumed stream, resolving
\* fetch_current_temperature as the first handler does, a tool having been called
\* at both depths before
C17_Witness ==
    /\ Len(handlers) = 3
    /\ cycles = 2
    /\ Len(invoked) = 1
    /\ HasDuplicateNames(tools)
    /\ GetItem(Top.tools_by_name, "fetch_current_temperature") = fetch_current_temperature
    /\ Len(Top.tools_by_name) = 4


\* the call is one handle_requires_action stops at: of a type other than
\* "function", naming no declared tool, or with arguments json.loads rejects
Aborts(tool_call) ==
    \/ tool_call.type # "function"
    \/ ~Declared(tool_call.function.name)
    \/ Malformed(tool_call.function.arguments)

\* C18: a batch aborted at its k-th call leaves exactly the calls before k
\* invoked.  When the run failed inside the loop, the call it stopped at is the
\* first of the batch that aborts; the calls before it were invoked, each once and
\* in their order, and their outputs collected; no call at or after it was
\* invoked; and no resume call was tried or made, so the outputs collected were
\* never submitted.
C18_AbortLeavesPrefixInvoked ==
    Aborted =>
        /\ Aborts(FailedCall)
        /\ \A j \in 1..done : ~Aborts(data.tool_calls[j])
        /\ [j \in 1..Len(invoked) |-> invoked[j].tool_call_id]
               = CallIds(SubSeq(data.tool_calls, 1, done))
        /\ \A j \in 1..Len(invoked) :
               invoked[j] = Invocation(BuildRegistry(tools), data.tool_calls[j])
        /\ OutputIds(output_str_list) = CallIds(SubSeq(data.tool_calls, 1, done))
        /\ ~resume.made
        /\ attempts = 0
        /\ cycles + 1 = pauses
        /\ handlers = <<>>

\* a batch of two calls aborted at its second call on malformed arguments, the
\* first call having reached a tool that raised
C18_Witness ==
    /\ Aborted
    /\ done = 1
    /\ Len(data.tool_calls) = 2
    /\ invoked[1].output.is_error
    /\ ArgumentDecodeError(exception)
    /\ output_str_list # <<>>


\* C19: action cycles are strictly nested, never interleaved.  A handler that is
\* not the innermost one is given no event and changes in nothing while a stream
\* resumed from it is open; a stream is opened only by a resume call, one at a
\* time, on top of the others, and only the innermost one ends; a batch is taken
\* up only when none is being handled, and only by the innermost handler.
C19_CyclesStrictlyNested ==
    /\ [][\A k \in 1..(Len(handlers) - 1) :
              k <= Len(handlers') => handlers'[k] = handlers[k]]_vars
    /\ [][Len(handlers') > Len(handlers) =>
              /\ resume'.made /\ ~resume.made
              /\ handlers' = Append(handlers, handlers'[Len(handlers')])
              /\ handlers'[Len(handlers')].n = 0]_vars
    /\ [][(Len(handlers') < Len(handlers) /\ pc' # "failed") =>
              handlers' = SubSeq(handlers, 1, Len(handlers) - 1)]_vars
    /\ [][data' # data =>
              \/ data = NoData /\ pc = "stream" /\ pc' = "handle"
              \/ data' = NoData /\ pc = "handle" /\ pc' = "stream"]_vars
    /\ [](pc = "stream" => (data = NoData /\ output_str_list = <<>> /\ done = 0))

\* the first handler given its next event after the stream resumed from it was
\* consumed to its end
C19_Witness ==
    /\ pc = "stream"
    /\ Len(handlers) = 1
    /\ cycles = 1
    /\ pauses = 1
    /\ Top.n = 3
    /\ attempts = 0

=============================================================================
